---- MODULE Spec2Model ----
(***************************************************************************)
(* Model of the multi-region manager (MultiRegionManager): periodic health *)
(* probes of every region, the rolling latency window, region selection    *)
(* and executeWithFailover with its failover history.                      *)
(*                                                                         *)
(* JavaScript runs each callback to its next await without interruption,   *)
(* so an action is the code between two awaits: starting a call up to its  *)
(* first outbound request, the continuation after a response up to the     *)
(* next request or the return/throw, and the continuation of one probe.    *)
(***************************************************************************)
EXTENDS Integers, Sequences, FiniteSets, TLC

\* ---------------------------------------------------------------- bounds
MaxRetriesBound == 3   \* maxRetries is drawn from 0..MaxRetriesBound
MaxSamples == 11       \* latency recordings in one behaviour (SpecWindow)
MaxHistEvents == 102   \* failed attempts in one behaviour (SpecHistory)
MaxRounds == 3         \* probe samples of one region in one behaviour (SpecTick)
MaxDirect == 1         \* direct calls of updateLatencyCache in one behaviour (SpecWindow)
MaxChecks == 2         \* checkAllRegionsHealth invocations in progress at once
MaxTimers == 2         \* setInterval timers held at once

\* ------------------------------------------------------ program constants
WindowCap == 10        \* "Keep only last 10 measurements"
HistoryCap == 100      \* "Keep only last 100 failover records"
RecentCap == 10        \* this.failoverHistory.slice(-10)
DefaultMaxRetries == 3 \* executeWithFailover(endpoint, options, maxRetries = 3)

\* Object.keys(REGIONS), in insertion order.
RegionIds == <<"us-east-1", "us-west-2", "eu-west-1", "ap-southeast-1">>

REGIONS == {RegionIds[i] : i \in 1..Len(RegionIds)}

latencyThreshold(r) ==
    CASE r = "us-east-1" -> 200
      [] r = "us-west-2" -> 250
      [] r = "eu-west-1" -> 300
      [] r = "ap-southeast-1" -> 400

priority(r) == IF r = "us-west-2" THEN 2 ELSE 1

\* The property names every object literal inherits from Object.prototype.
ObjectPrototypeNames ==
    {"constructor", "toString", "toLocaleString", "valueOf", "hasOwnProperty",
     "isPrototypeOf", "propertyIsEnumerable", "__proto__", "__defineGetter__",
     "__defineSetter__", "__lookupGetter__", "__lookupSetter__"}

\* What a lookup of an inherited name yields: a function (or Object.prototype
\* itself), a truthy value that is no array and has no filter method.
NotAnArray == <<"[inherited]">>

\* GEO_REGIONS[country], for any string: the array of an own key, the
\* inherited value of a name found on the prototype, else undefined (<<>>).
GEO_REGIONS(country) ==
    CASE country \in {"US", "CA"} -> <<"us-east-1", "us-west-2">>
      [] country \in {"GB", "DE", "FR"} -> <<"eu-west-1">>
      [] country \in {"SG", "JP", "AU"} -> <<"ap-southeast-1">>
      [] country \in ObjectPrototypeNames -> NotAnArray
      [] OTHER -> <<>>

\* options.userCountry when the caller gives none (null: falsy).
NoCountry == ""

VARIABLES
    currentRegion,        \* this.currentRegion
    healthKeys,           \* keys of the Map this.regionHealth, in insertion order
    regionHealth,         \* values of the Map this.regionHealth
    latencyCache,         \* this.latencyCache (an absent key is the empty window)
    failoverHistory,      \* this.failoverHistory
    healthCheckInterval,  \* this.healthCheckInterval: TRUE for a timer handle, FALSE for null
    timer,                \* number of setInterval timers the runtime holds
    reply,                \* the value the last reporter call returned, until its caller takes it
    summary,              \* <<n>> for the last "n/4 regions healthy" logged, <<>> before the first
    probe,                \* per check in progress and region: the probe is "inflight", or its
                          \* result is held ("alias", "healthy", "unhealthy", "rejected")
    calls,                \* per caller: the frame of its executeWithFailover invocation
    clock,                \* history: number of failover events recorded so far
    recorded              \* history: every sample ever passed to updateLatencyCache, per region

vars == <<currentRegion, healthKeys, regionHealth, latencyCache, failoverHistory,
          healthCheckInterval, timer, reply, probe, calls, clock, recorded, summary>>

\* The invocations of executeWithFailover that can be in progress at once.
Callers == {"c1", "c2"}

\* The slots for the invocations of checkAllRegionsHealth in progress.
Checks == 1..MaxChecks

\* ------------------------------------------------------------- helpers
\* A measured latency or duration is a difference of two performance.now()
\* readings, a number of milliseconds with a fraction: it is counted in units
\* of 1/Scale ms.
Scale == 2

\* n ms as a measured latency.
Ms(n) == n * Scale

\* Math.round of a measured latency, in ms (a half rounds up).
Round(latency) == (2 * latency + Scale) \div (2 * Scale)

RECURSIVE Sum(_)
Sum(s) == IF s = <<>> THEN 0 ELSE Head(s) + Sum(Tail(s))

Range(s) == {s[i] : i \in 1..Len(s)}

Min(a, b) == IF a < b THEN a ELSE b

\* The last n elements of s (n <= Len(s)).
LastN(s, n) == SubSeq(s, Len(s) - n + 1, Len(s))

\* Map.prototype.has / Map.prototype.set on the keys of regionHealth.
Has(keys, r) == r \in Range(keys)

MapSetKey(keys, r) == IF Has(keys, r) THEN keys ELSE Append(keys, r)

\* The value stored for a region that has no record yet (never read: Has guards it).
NoRecord ==
    [status |-> "unknown", healthy |-> FALSE, latency |-> <<>>, responseTime |-> <<>>,
     statusCode |-> <<>>, error |-> FALSE, lastError |-> <<>>]

\* Faulty variant of IsHealthy: a region without record counts as healthy.
IsHealthy_unknownOk(health, keys, r) == ~Has(keys, r) \/ health[r].healthy

\* health && health.healthy
IsHealthy(health, keys, r) == Has(keys, r) /\ health[r].healthy

\* ------------------------------------------------------ latency tracker
\* Faulty variant of updateLatencyCache: a full window drops the new sample.
updateLatencyCache_keepOldest(cache, regionId, latency) ==
    LET latencies == Append(cache[regionId], latency)
    IN [cache EXCEPT ![regionId] =
            IF Len(latencies) > WindowCap
            THEN SubSeq(latencies, 1, Len(latencies) - 1) ELSE latencies]

\* updateLatencyCache(regionId, latency): push, then shift once over 10.
updateLatencyCache(cache, regionId, latency) ==
    LET latencies == Append(cache[regionId], latency)
    IN [cache EXCEPT ![regionId] =
            IF Len(latencies) > WindowCap THEN Tail(latencies) ELSE latencies]

\* Faulty variant of getAverageLatency: the sum is divided by the window's
\* capacity, not by its length.
getAverageLatency_byCapacity(cache, regionId) ==
    LET latencies == cache[regionId]
    IN IF Len(latencies) = 0 THEN <<>> ELSE <<Sum(latencies), WindowCap>>

\* getAverageLatency(regionId): null is <<>>, the mean sum/length is the
\* pair <<sum, length>> (compared by cross-multiplication, never rounded).
getAverageLatency(cache, regionId) ==
    LET latencies == cache[regionId]
    IN IF Len(latencies) = 0 THEN <<>> ELSE <<Sum(latencies), Len(latencies)>>

\* JavaScript truthiness of an average: null and 0 are falsy.
Truthy(avg) == avg /= <<>> /\ avg[1] /= 0

\* a < b for two means.
AvgLess(a, b) == a[1] * b[2] < b[1] * a[2]

\* --------------------------------------------------------- region selector
\* selectByLatency(regionIds): the fold of the forEach over (bestRegion,
\* bestLatency); bestLatency <<>> stands for Infinity.
RECURSIVE selectFold(_, _, _, _)
selectFold(cache, regionIds, i, best) ==
    IF i > Len(regionIds) THEN best
    ELSE LET avgLatency == getAverageLatency(cache, regionIds[i])
             better == /\ Truthy(avgLatency)
                       /\ (best.latency = <<>> \/ AvgLess(avgLatency, best.latency))
         IN selectFold(cache, regionIds, i + 1,
                       IF better THEN [region |-> regionIds[i], latency |-> avgLatency]
                       ELSE best)

selectByLatency(cache, regionIds) ==
    selectFold(cache, regionIds, 1, [region |-> regionIds[1], latency |-> <<>>]).region

\* Array.from(this.regionHealth.entries()).filter(healthy).map(id)
HealthyRegions(health, keys) == SelectSeq(keys, LAMBDA r : health[r].healthy)

\* Faulty variant of getBestRegion: the geography hint is not used.
getBestRegion_ignoreHint(health, keys, cache, cur, userCountry) ==
    LET healthyRegions == HealthyRegions(health, keys)
    IN IF Len(healthyRegions) = 0 THEN cur
       ELSE selectByLatency(cache, healthyRegions)

\* The outcome of getBestRegion when it throws "TypeError:
\* GEO_REGIONS[userCountry].filter is not a function".
TypeError == "TypeError"

\* getBestRegion(clientIP, userCountry): the region returned, or TypeError
\* when the lookup of the hint yields a truthy value that is no array.
getBestRegion(health, keys, cache, cur, userCountry) ==
    LET healthyRegions == HealthyRegions(health, keys)
        preferredRegions ==
            SelectSeq(GEO_REGIONS(userCountry), LAMBDA r : r \in Range(healthyRegions))
    IN IF Len(healthyRegions) = 0 THEN cur
       ELSE IF userCountry /= NoCountry /\ GEO_REGIONS(userCountry) /= <<>>
            THEN IF GEO_REGIONS(userCountry) = NotAnArray THEN TypeError
                 ELSE IF Len(preferredRegions) > 0
                      THEN selectByLatency(cache, preferredRegions)
                      ELSE selectByLatency(cache, healthyRegions)
            ELSE selectByLatency(cache, healthyRegions)

\* The comparator of getFailoverRegions: (avg(a) || Infinity) - (avg(b) || Infinity)
\* is positive exactly when a must move behind b (NaN and 0 leave the order).
ComparePositive(cache, a, b) ==
    LET latencyA == getAverageLatency(cache, a)
        latencyB == getAverageLatency(cache, b)
    IN /\ Truthy(latencyB)
       /\ (~Truthy(latencyA) \/ AvgLess(latencyB, latencyA))

\* Array.prototype.sort is stable: x goes behind every element it does not beat.
RECURSIVE SortInsert(_, _, _)
SortInsert(cache, sorted, x) ==
    IF sorted = <<>> THEN <<x>>
    ELSE IF ComparePositive(cache, Head(sorted), x)
         THEN <<x>> \o sorted
         ELSE <<Head(sorted)>> \o SortInsert(cache, Tail(sorted), x)

RECURSIVE StableSort(_, _)
StableSort(cache, s) ==
    IF s = <<>> THEN <<>>
    ELSE SortInsert(cache, StableSort(cache, SubSeq(s, 1, Len(s) - 1)), s[Len(s)])

\* Faulty variant of getFailoverRegions: the candidates are not filtered by
\* health, the loop's own check is left to skip the unhealthy ones.
getFailoverRegions_allRegions(health, keys, cache, excludeRegion) ==
    StableSort(cache, SelectSeq(RegionIds, LAMBDA r : r /= excludeRegion))

\* Faulty variant of getFailoverRegions: excludeRegion is not filtered out.
getFailoverRegions_keepsExcluded(health, keys, cache, excludeRegion) ==
    StableSort(cache, SelectSeq(RegionIds, LAMBDA r : IsHealthy(health, keys, r)))

\* getFailoverRegions(excludeRegion)
getFailoverRegions(health, keys, cache, excludeRegion) ==
    StableSort(cache,
        SelectSeq(RegionIds,
                  LAMBDA r : r /= excludeRegion /\ IsHealthy(health, keys, r)))

\* ------------------------------------------------------- failover executor
\* An axios rejection: error.response is set for an HTTP status outside 2xx,
\* and absent for a timeout or a refused connection.
HttpError(code) == [response |-> TRUE, status |-> code]

ConnError == [response |-> FALSE, status |-> 0]

\* error.message
Message(error) ==
    IF error.response THEN <<"Request failed with status code", error.status>>
    ELSE <<"timeout">>

\* Faulty variant of IsServerError: every HTTP error.
IsServerError_clientToo(error) == error.response /\ error.status >= 400

\* "Mark region as potentially unhealthy if it's a server error"
IsServerError(error) == error.response /\ error.status >= 500

\* Faulty variant of MarkUnhealthy: the catch block writes nothing.
MarkUnhealthy_never(health, keys, regionId, error) == health

\* Faulty variant of MarkUnhealthy: the write flips healthy instead of clearing it.
MarkUnhealthy_toggle(health, keys, regionId, error) ==
    IF IsServerError(error) /\ Has(keys, regionId)
    THEN [health EXCEPT ![regionId] =
            [@ EXCEPT !.healthy = ~@, !.lastError = <<Message(error)>>]]
    ELSE health

\* The catch block's write to the region's record (the record object is
\* changed in place: only healthy and lastError are assigned).
MarkUnhealthy(health, keys, regionId, error) ==
    IF IsServerError(error) /\ Has(keys, regionId)
    THEN [health EXCEPT ![regionId] =
            [@ EXCEPT !.healthy = FALSE, !.lastError = <<Message(error)>>]]
    ELSE health

\* Faulty variant of PushHistory: a full history drops the new event.
PushHistory_dropNewest(history, event) ==
    LET pushed == Append(history, event)
    IN IF Len(pushed) > HistoryCap THEN SubSeq(pushed, 1, Len(pushed) - 1) ELSE pushed

\* this.failoverHistory.push(...), then shift once over 100.
PushHistory(history, event) ==
    LET pushed == Append(history, event)
    IN IF Len(pushed) > HistoryCap THEN Tail(pushed) ELSE pushed

\* Faulty variant of NextCandidate: health is not read again at attempt time.
RECURSIVE NextCandidate_noRecheck(_, _, _, _, _, _)
NextCandidate_noRecheck(order, i, attempts, maxRetries, health, keys) ==
    IF i > Len(order) THEN 0
    ELSE IF attempts >= maxRetries THEN 0
    ELSE IF order[i] \notin REGIONS
         THEN NextCandidate_noRecheck(order, i + 1, attempts, maxRetries, health, keys)
    ELSE i

\* Faulty variants of NextCandidate: the retry bound is off by one, either way.
RECURSIVE NextCandidate_earlyBreak(_, _, _, _, _, _)
NextCandidate_earlyBreak(order, i, attempts, maxRetries, health, keys) ==
    IF i > Len(order) THEN 0
    ELSE IF attempts + 1 >= maxRetries THEN 0
    ELSE IF order[i] \notin REGIONS \/ ~IsHealthy(health, keys, order[i])
         THEN NextCandidate_earlyBreak(order, i + 1, attempts, maxRetries, health, keys)
    ELSE i

RECURSIVE NextCandidate_lateBreak(_, _, _, _, _, _)
NextCandidate_lateBreak(order, i, attempts, maxRetries, health, keys) ==
    IF i > Len(order) THEN 0
    ELSE IF attempts > maxRetries THEN 0
    ELSE IF order[i] \notin REGIONS \/ ~IsHealthy(health, keys, order[i])
         THEN NextCandidate_lateBreak(order, i + 1, attempts, maxRetries, health, keys)
    ELSE i

\* The for-loop from candidate i on, up to the next request: the index of the
\* candidate that gets the request, or 0 when the loop is left without one.
RECURSIVE NextCandidate(_, _, _, _, _, _)
NextCandidate(order, i, attempts, maxRetries, health, keys) ==
    IF i > Len(order) THEN 0
    ELSE IF attempts >= maxRetries THEN 0                       \* break
    ELSE IF order[i] \notin REGIONS                             \* !regionConfig
         THEN NextCandidate(order, i + 1, attempts, maxRetries, health, keys)
    ELSE IF ~IsHealthy(health, keys, order[i])                  \* !health || !health.healthy
         THEN NextCandidate(order, i + 1, attempts, maxRetries, health, keys)
    ELSE i

\* regionOrder = [preferredRegion, ...this.getFailoverRegions(preferredRegion)]
RegionOrder(health, keys, cache, cur, userCountry) ==
    LET preferredRegion == getBestRegion(health, keys, cache, cur, userCountry)
    IN <<preferredRegion>> \o getFailoverRegions(health, keys, cache, preferredRegion)

\* The frame of a caller that is not inside executeWithFailover.
IdleFrame ==
    [pc |-> "idle", regionOrder |-> <<>>, idx |-> 0, attempts |-> 0, maxRetries |-> 0,
     userCountry |-> NoCountry, lastError |-> <<>>, outcome |-> "none", region |-> "",
     latency |-> 0, tried |-> <<>>, failed |-> <<>>, passed |-> {}, noneHealthy |-> FALSE]

\* History for the frame: the candidates the loop passes over between index
\* `from` and its next request (or its end), found unconfigured or not healthy.
PassedOver(frame, from, j, health, keys) ==
    LET order == frame.regionOrder
        last == IF j > 0 THEN j - 1
                ELSE IF frame.attempts >= frame.maxRetries THEN from - 1 ELSE Len(order)
    IN {k \in from..last : order[k] \notin REGIONS \/ ~IsHealthy(health, keys, order[k])}

\* Faulty variant of Continue: the loop starts over at the first candidate.
Continue_fromStart(frame, from, health, keys) ==
    LET j == NextCandidate(frame.regionOrder, 1, frame.attempts, frame.maxRetries,
                           health, keys)
    IN IF j = 0
       THEN [frame EXCEPT !.pc = "done", !.outcome = "exhausted", !.idx = 0]
       ELSE [frame EXCEPT !.pc = "await", !.idx = j, !.attempts = @ + 1,
                          !.tried = Append(@, frame.regionOrder[j])]

\* Faulty variant of Continue: the counter advances for every candidate the
\* loop looks at, skipped ones included.
Continue_countsSkipped(frame, from, health, keys) ==
    LET j == NextCandidate(frame.regionOrder, from, frame.attempts, frame.maxRetries,
                           health, keys)
        passed == frame.passed \cup PassedOver(frame, from, j, health, keys)
    IN IF j = 0
       THEN [frame EXCEPT !.pc = "done", !.outcome = "exhausted", !.idx = 0,
                          !.passed = passed]
       ELSE [frame EXCEPT !.pc = "await", !.idx = j, !.attempts = @ + 1 + (j - from),
                          !.tried = Append(@, frame.regionOrder[j]),
                          !.passed = passed]

\* The loop moves on from candidate `from`: the next request is issued, or the
\* loop ends and the call throws "All regions failed after N attempts".
Continue(frame, from, health, keys) ==
    LET j == NextCandidate(frame.regionOrder, from, frame.attempts, frame.maxRetries,
                           health, keys)
        passed == frame.passed \cup PassedOver(frame, from, j, health, keys)
    IN IF j = 0
       THEN [frame EXCEPT !.pc = "done", !.outcome = "exhausted", !.idx = 0,
                          !.passed = passed]
       ELSE [frame EXCEPT !.pc = "await", !.idx = j, !.attempts = @ + 1,
                          !.tried = Append(@, frame.regionOrder[j]),
                          !.passed = passed]

\* -------------------------------------------------------------- reporters
\* avgLatency ? Math.round(avgLatency) : null (Math.round rounds a half up).
RoundedAverage(avg) ==
    IF Truthy(avg) THEN <<(2 * avg[1] + avg[2] * Scale) \div (2 * avg[2] * Scale)>>
    ELSE <<>>

\* Faulty variant of getRegionStatus: every region that is not counted
\* healthy is counted unhealthy, the ones without record included.
getRegionStatus_countsMissing(health, keys, cache, cur) ==
    [currentRegion |-> cur,
     totalRegions |-> Len(RegionIds),
     healthyRegions |-> Cardinality({r \in Range(keys) : health[r].healthy}),
     unhealthyRegions |-> Len(RegionIds) - Cardinality({r \in Range(keys) : health[r].healthy}),
     regions |-> [r \in Range(keys) |->
                    [health |-> health[r],
                     averageLatency |-> RoundedAverage(getAverageLatency(cache, r)),
                     priority |-> priority(r)]]]

\* getRegionStatus(): one entry per key of regionHealth (the record itself,
\* the rounded average and the region's priority; name, endpoint, timezone
\* and lastUpdate are left out, they depend on no state).
getRegionStatus(health, keys, cache, cur) ==
    [currentRegion |-> cur,
     totalRegions |-> Len(RegionIds),
     healthyRegions |-> Cardinality({r \in Range(keys) : health[r].healthy}),
     unhealthyRegions |-> Cardinality({r \in Range(keys) : ~health[r].healthy}),
     regions |-> [r \in Range(keys) |->
                    [health |-> health[r],
                     averageLatency |-> RoundedAverage(getAverageLatency(cache, r)),
                     priority |-> priority(r)]]]

\* 24 * 60 * 60 * 1000: the age in ms from which a record is left out of the
\* last-24-hours figures. Timestamps are wall-clock readings in ms.
Day == 24 * 60 * 60 * 1000

\* Faulty variant of getFailoverStats: recentFailovers is slice(0, 10), the
\* oldest entries.
getFailoverStats_oldestTen(history, now) ==
    LET last24h == SelectSeq(history, LAMBDA record : now - record.timestamp < Day)
        failed == {last24h[i].fromRegion : i \in 1..Len(last24h)}
    IN [totalFailovers |-> Len(history),
        last24Hours |-> Len(last24h),
        regionFailures |-> [r \in failed |->
            Cardinality({i \in 1..Len(last24h) : last24h[i].fromRegion = r})],
        recentFailovers |-> SubSeq(history, 1, Min(RecentCap, Len(history)))]

\* getFailoverStats(), called when Date.now() reads `now`: every record is
\* kept or dropped by its own age, whatever its place in the history.
getFailoverStats(history, now) ==
    LET last24h == SelectSeq(history, LAMBDA record : now - record.timestamp < Day)
        failed == {last24h[i].fromRegion : i \in 1..Len(last24h)}
    IN [totalFailovers |-> Len(history),
        last24Hours |-> Len(last24h),
        regionFailures |-> [r \in failed |->
            Cardinality({i \in 1..Len(last24h) : last24h[i].fromRegion = r})],
        recentFailovers |-> LastN(history, Min(RecentCap, Len(history)))]

\* ----------------------------------------------------------------- state
\* No reporter call has returned a value that its caller has yet to take.
NoReply == [op |-> "none"]

\* A slot of `probe` with no check in it, and one whose check has just begun.
Free == [r \in REGIONS |-> "idle"]

Started == [r \in REGIONS |-> "inflight"]

Init ==
    /\ currentRegion \in {"us-east-1", "eu-central-1"}   \* process.env.AWS_REGION || 'us-east-1'
    /\ healthKeys = <<>>
    /\ regionHealth = [r \in REGIONS |-> NoRecord]
    /\ latencyCache = [r \in REGIONS |-> <<>>]
    /\ failoverHistory = <<>>
    /\ healthCheckInterval = TRUE
    /\ timer = 1
    /\ reply = NoReply
    /\ summary = <<>>
    /\ probe = [k \in Checks |-> IF k = 1 THEN Started ELSE Free]  \* the initial check
    /\ calls = [c \in Callers |-> IdleFrame]
    /\ clock = 0
    /\ recorded = [r \in REGIONS |-> <<>>]

\* Faulty variant of ProbeHealthy: a latency of exactly twice the threshold passes.
ProbeHealthy_inclusive(regionId, statusCode, latency) ==
    statusCode = 200 /\ latency <= Ms(latencyThreshold(regionId) * 2)

\* healthy: response.status === 200 && latency < config.latencyThreshold * 2
ProbeHealthy(regionId, statusCode, latency) ==
    statusCode = 200 /\ latency < Ms(latencyThreshold(regionId) * 2)

\* ------------------------------------------------- health checks in progress
\* Check k still has a probe in flight.
Pending(p, k) == \E r \in REGIONS : p[k][r] = "inflight"

\* All probes of check k have settled and its summary has not run yet.
AwaitsSummary(p, k) == p[k] /= Free /\ ~Pending(p, k)

\* Some check has a probe of region r in flight.
Inflight(p, r) == \E k \in Checks : p[k][r] = "inflight"

\* No check is in progress.
Quiet(p) == \A k \in Checks : p[k] = Free

\* result.value.healthy for region r in check k: the result is the object the
\* probe stored in regionHealth, so it shows a later mark of the executor for
\* as long as it is the region's record ("alias").
ResultHealthy(p, health, k, r) ==
    p[k][r] = "healthy" \/ (p[k][r] = "alias" /\ health[r].healthy)

\* regionHealth.set(regionId, health) by a probe of check k: the object stored
\* before stops being the region's record, so a check that holds it as a
\* result keeps its healthy as it is now; `mine` is what check k holds.
Stored(p, health, k, regionId, mine) ==
    [j \in Checks |->
        IF j = k THEN [p[j] EXCEPT ![regionId] = mine]
        ELSE IF p[j][regionId] = "alias"
             THEN [p[j] EXCEPT ![regionId] =
                      IF health[regionId].healthy THEN "healthy" ELSE "unhealthy"]
             ELSE p[j]]

\* The probes of checkAllRegionsHealth are started (Object.entries(REGIONS).map),
\* in the first free slot.
StartCheck(p) ==
    LET k == CHOOSE k \in Checks : p[k] = Free /\ \A j \in Checks : j < k => p[j] /= Free
    IN [p EXCEPT ![k] = Started]

\* The record a resolved probe builds (lines 101-109).
ResolvedRecord(regionId, statusCode, latency) ==
    [status |-> IF statusCode = 200 THEN "healthy" ELSE "unhealthy",
     healthy |-> ProbeHealthy(regionId, statusCode, latency),
     latency |-> <<Round(latency)>>, responseTime |-> <<latency>>,
     statusCode |-> <<statusCode>>, error |-> FALSE, lastError |-> <<>>]

\* The record a rejected probe builds (lines 116-123).
RejectedRecord ==
    [status |-> "unhealthy", healthy |-> FALSE, latency |-> <<>>, responseTime |-> <<>>,
     statusCode |-> <<>>, error |-> TRUE, lastError |-> <<>>]

\* checkAllRegionsHealth() is called (by the timer, by initializeHealthChecks
\* or directly): one probe per region is started.
CheckAllRegionsHealth ==
    /\ \E k \in Checks : probe[k] = Free
    /\ probe' = StartCheck(probe)
    /\ UNCHANGED <<currentRegion, healthKeys, regionHealth, latencyCache, failoverHistory,
                   healthCheckInterval, timer, reply, calls, clock, recorded, summary>>

\* The setInterval callback: checkAllRegionsHealth, whatever is in flight. A
\* timer callback runs when no promise continuation is waiting to run, so
\* after the summary of a check whose probes have all settled.
Tick ==
    /\ timer > 0
    /\ \A k \in Checks : ~AwaitsSummary(probe, k)
    /\ CheckAllRegionsHealth

\* initializeHealthChecks() is called again: a check is started and a new
\* timer is created, whose handle replaces the one held (the timer of the
\* replaced handle keeps running).
InitializeHealthChecks ==
    /\ \E k \in Checks : probe[k] = Free
    /\ timer < MaxTimers
    /\ probe' = StartCheck(probe)
    /\ timer' = timer + 1
    /\ healthCheckInterval' = TRUE
    /\ UNCHANGED <<currentRegion, healthKeys, regionHealth, latencyCache, failoverHistory,
                   reply, calls, clock, recorded, summary>>

\* updateLatencyCache(regionId, latency) is called directly.
UpdateLatencyCache(regionId, latency) ==
    /\ latencyCache' = updateLatencyCache(latencyCache, regionId, latency)
    /\ recorded' = [recorded EXCEPT ![regionId] = Append(@, latency)]
    /\ UNCHANGED <<currentRegion, healthKeys, regionHealth, failoverHistory,
                   healthCheckInterval, timer, reply, probe, calls, clock, summary>>

\* Faulty variant of ProbeResolve: a record marked by the executor (lastError
\* set) keeps healthy = false whatever the probe's result.
ProbeResolve_stickyMark(regionId, statusCode, latency) ==
    \E k \in Checks :
        /\ probe[k][regionId] = "inflight"
        /\ regionHealth' = [regionHealth EXCEPT ![regionId] =
                [ResolvedRecord(regionId, statusCode, latency) EXCEPT
                    !.healthy = @ /\ regionHealth[regionId].lastError = <<>>,
                    !.lastError = regionHealth[regionId].lastError]]
        /\ healthKeys' = MapSetKey(healthKeys, regionId)
        /\ latencyCache' = updateLatencyCache(latencyCache, regionId, latency)
        /\ recorded' = [recorded EXCEPT ![regionId] = Append(@, latency)]
        /\ probe' = Stored(probe, regionHealth, k, regionId, "alias")
        /\ UNCHANGED <<currentRegion, failoverHistory, healthCheckInterval, timer, reply,
                       calls, clock, summary>>

\* Faulty variant of ProbeResolve: the record is written, the latency sample
\* is not.
ProbeResolve_noSample(regionId, statusCode, latency) ==
    \E k \in Checks :
        /\ probe[k][regionId] = "inflight"
        /\ regionHealth' = [regionHealth EXCEPT ![regionId] =
                ResolvedRecord(regionId, statusCode, latency)]
        /\ healthKeys' = MapSetKey(healthKeys, regionId)
        /\ probe' = Stored(probe, regionHealth, k, regionId, "alias")
        /\ UNCHANGED <<currentRegion, latencyCache, failoverHistory, healthCheckInterval,
                       timer, reply, calls, clock, recorded, summary>>

\* Faulty variant of ProbeResolve: the probe's result is merged into the
\* record it finds, whose healthy = false and lastError survive.
ProbeResolve_mergesRecord(regionId, statusCode, latency) ==
    \E k \in Checks :
        /\ probe[k][regionId] = "inflight"
        /\ regionHealth' = [regionHealth EXCEPT ![regionId] =
                [ResolvedRecord(regionId, statusCode, latency) EXCEPT
                    !.healthy = @ /\ (Has(healthKeys, regionId)
                                        => regionHealth[regionId].healthy),
                    !.lastError = regionHealth[regionId].lastError]]
        /\ healthKeys' = MapSetKey(healthKeys, regionId)
        /\ latencyCache' = updateLatencyCache(latencyCache, regionId, latency)
        /\ recorded' = [recorded EXCEPT ![regionId] = Append(@, latency)]
        /\ probe' = Stored(probe, regionHealth, k, regionId, "alias")
        /\ UNCHANGED <<currentRegion, failoverHistory, healthCheckInterval, timer, reply,
                       calls, clock, summary>>

\* A probe's axios.get resolves (a 2xx status) after `latency`: the record
\* and the sample are written and the result is handed to the check.
ProbeResolve(regionId, statusCode, latency) ==
    \E k \in Checks :
        /\ probe[k][regionId] = "inflight"
        /\ regionHealth' = [regionHealth EXCEPT ![regionId] =
                ResolvedRecord(regionId, statusCode, latency)]
        /\ healthKeys' = MapSetKey(healthKeys, regionId)
        /\ latencyCache' = updateLatencyCache(latencyCache, regionId, latency)
        /\ recorded' = [recorded EXCEPT ![regionId] = Append(@, latency)]
        /\ probe' = Stored(probe, regionHealth, k, regionId, "alias")
        /\ UNCHANGED <<currentRegion, failoverHistory, healthCheckInterval, timer, reply,
                       calls, clock, summary>>

\* Faulty variant of ProbeReject: the rejection fails every probe of the check
\* that is still in flight.
ProbeReject_failsAll(regionId) ==
    \E k \in Checks :
        /\ probe[k][regionId] = "inflight"
        /\ regionHealth' = [r \in REGIONS |->
                IF probe[k][r] = "inflight" THEN RejectedRecord ELSE regionHealth[r]]
        /\ healthKeys' = MapSetKey(healthKeys, regionId)
        /\ probe' = [probe EXCEPT ![k] =
                [r \in REGIONS |-> IF probe[k][r] = "inflight" THEN "rejected"
                                   ELSE probe[k][r]]]
        /\ UNCHANGED <<currentRegion, latencyCache, failoverHistory, healthCheckInterval,
                       timer, reply, calls, clock, recorded, summary>>

\* A probe's axios.get rejects (timeout, connection error, status outside 2xx):
\* the record is written, no sample.
ProbeReject(regionId) ==
    \E k \in Checks :
        /\ probe[k][regionId] = "inflight"
        /\ regionHealth' = [regionHealth EXCEPT ![regionId] = RejectedRecord]
        /\ healthKeys' = MapSetKey(healthKeys, regionId)
        /\ probe' = Stored(probe, regionHealth, k, regionId, "rejected")
        /\ UNCHANGED <<currentRegion, latencyCache, failoverHistory, healthCheckInterval,
                       timer, reply, calls, clock, recorded, summary>>

\* Faulty variant of Summarise: one rejected probe fails the wait, and the
\* summary is not reached.
Summarise_needsAllFulfilled(k) ==
    /\ AwaitsSummary(probe, k)
    /\ \A r \in REGIONS : probe[k][r] /= "rejected"
    /\ summary' = <<Cardinality({r \in REGIONS : ResultHealthy(probe, regionHealth, k, r)})>>
    /\ probe' = [probe EXCEPT ![k] = Free]
    /\ UNCHANGED <<currentRegion, healthKeys, regionHealth, latencyCache, failoverHistory,
                   healthCheckInterval, timer, reply, calls, clock, recorded>>

\* The continuation of check k after `await Promise.allSettled`: it runs once
\* all probes of the check have settled, as a later step than the last of
\* them, and logs the number of results whose healthy is true at that moment.
Summarise(k) ==
    /\ AwaitsSummary(probe, k)
    /\ summary' = <<Cardinality({r \in REGIONS : ResultHealthy(probe, regionHealth, k, r)})>>
    /\ probe' = [probe EXCEPT ![k] = Free]
    /\ UNCHANGED <<currentRegion, healthKeys, regionHealth, latencyCache, failoverHistory,
                   healthCheckInterval, timer, reply, calls, clock, recorded>>

\* executeWithFailover is called: the candidate list is computed and the loop
\* runs to its first request (or to the throw when no candidate gets one).
\* When getBestRegion throws, the call rejects with its TypeError at once.
Call(c, userCountry, maxRetries) ==
    /\ calls[c].pc = "idle"
    /\ LET best == getBestRegion(regionHealth, healthKeys, latencyCache, currentRegion,
                                 userCountry)
           order == RegionOrder(regionHealth, healthKeys, latencyCache, currentRegion,
                                userCountry)
           frame == [IdleFrame EXCEPT !.regionOrder = order, !.maxRetries = maxRetries,
                                      !.userCountry = userCountry,
                                      !.noneHealthy =
                                          (HealthyRegions(regionHealth, healthKeys) = <<>>)]
       IN calls' = [calls EXCEPT ![c] =
              IF best = TypeError
              THEN [IdleFrame EXCEPT !.pc = "done", !.outcome = "typeError",
                                     !.maxRetries = maxRetries,
                                     !.userCountry = userCountry]
              ELSE Continue(frame, 1, regionHealth, healthKeys)]
    /\ UNCHANGED <<currentRegion, healthKeys, regionHealth, latencyCache, failoverHistory,
                   healthCheckInterval, timer, reply, probe, clock, recorded, summary>>

\* Faulty variant of RespondOk: the latency is recorded and the loop goes on
\* to the next candidate.
RespondOk_tryNext(c, duration) ==
    /\ calls[c].pc = "await"
    /\ LET regionId == calls[c].regionOrder[calls[c].idx]
       IN /\ latencyCache' = updateLatencyCache(latencyCache, regionId, duration)
          /\ recorded' = [recorded EXCEPT ![regionId] = Append(@, duration)]
          /\ calls' = [calls EXCEPT ![c] =
                Continue([calls[c] EXCEPT !.region = regionId,
                                          !.latency = Round(duration)],
                         calls[c].idx + 1, regionHealth, healthKeys)]
    /\ UNCHANGED <<currentRegion, healthKeys, regionHealth, failoverHistory,
                   healthCheckInterval, timer, reply, probe, clock, summary>>

\* The awaited request resolves: the latency is recorded and the call returns.
RespondOk(c, duration) ==
    /\ calls[c].pc = "await"
    /\ LET regionId == calls[c].regionOrder[calls[c].idx]
       IN /\ latencyCache' = updateLatencyCache(latencyCache, regionId, duration)
          /\ recorded' = [recorded EXCEPT ![regionId] = Append(@, duration)]
          /\ calls' = [calls EXCEPT ![c] =
                [@ EXCEPT !.pc = "done", !.outcome = "success", !.region = regionId,
                          !.latency = Round(duration)]]
    /\ UNCHANGED <<currentRegion, healthKeys, regionHealth, failoverHistory,
                   healthCheckInterval, timer, reply, probe, clock, summary>>

\* Faulty variant of RespondErr: the event carries the candidate's position in
\* the list instead of the attempt number.
RespondErr_positionAsAttempt(c, error, now) ==
    /\ calls[c].pc = "await"
    /\ LET regionId == calls[c].regionOrder[calls[c].idx]
           health == MarkUnhealthy(regionHealth, healthKeys, regionId, error)
           frame == [calls[c] EXCEPT !.lastError = <<Message(error)>>,
                                     !.failed = Append(@, error)]
       IN /\ regionHealth' = health
          /\ failoverHistory' = PushHistory(failoverHistory,
                [timestamp |-> now, fromRegion |-> regionId,
                 error |-> Message(error), attempt |-> calls[c].idx])
          /\ calls' = [calls EXCEPT ![c] =
                Continue(frame, calls[c].idx + 1, health, healthKeys)]
    /\ clock' = clock + 1
    /\ UNCHANGED <<currentRegion, healthKeys, latencyCache, healthCheckInterval, timer,
                   reply, probe, recorded, summary>>

\* Faulty variant of RespondErr: the failed region's latency window is
\* emptied along with the mark.
RespondErr_clearsWindow(c, error, now) ==
    /\ calls[c].pc = "await"
    /\ LET regionId == calls[c].regionOrder[calls[c].idx]
           health == MarkUnhealthy(regionHealth, healthKeys, regionId, error)
           frame == [calls[c] EXCEPT !.lastError = <<Message(error)>>,
                                     !.failed = Append(@, error)]
       IN /\ regionHealth' = health
          /\ latencyCache' = [latencyCache EXCEPT ![regionId] = <<>>]
          /\ failoverHistory' = PushHistory(failoverHistory,
                [timestamp |-> now, fromRegion |-> regionId,
                 error |-> Message(error), attempt |-> calls[c].attempts])
          /\ calls' = [calls EXCEPT ![c] =
                Continue(frame, calls[c].idx + 1, health, healthKeys)]
    /\ clock' = clock + 1
    /\ UNCHANGED <<currentRegion, healthKeys, healthCheckInterval, timer,
                   reply, probe, recorded, summary>>

\* The awaited request rejects: the catch block runs, then the loop goes on
\* to the next request or to the throw.
RespondErr(c, error, now) ==
    /\ calls[c].pc = "await"
    /\ LET regionId == calls[c].regionOrder[calls[c].idx]
           health == MarkUnhealthy(regionHealth, healthKeys, regionId, error)
           frame == [calls[c] EXCEPT !.lastError = <<Message(error)>>,
                                     !.failed = Append(@, error)]
       IN /\ regionHealth' = health
          /\ failoverHistory' = PushHistory(failoverHistory,
                [timestamp |-> now, fromRegion |-> regionId,
                 error |-> Message(error), attempt |-> calls[c].attempts])
          /\ calls' = [calls EXCEPT ![c] =
                Continue(frame, calls[c].idx + 1, health, healthKeys)]
    /\ clock' = clock + 1
    /\ UNCHANGED <<currentRegion, healthKeys, latencyCache, healthCheckInterval, timer,
                   reply, probe, recorded, summary>>

\* The caller has its result or its error; its slot serves a later call.
Collect(c) ==
    /\ calls[c].pc = "done"
    /\ calls' = [calls EXCEPT ![c] = IdleFrame]
    /\ UNCHANGED <<currentRegion, healthKeys, regionHealth, latencyCache, failoverHistory,
                   healthCheckInterval, timer, reply, probe, clock, recorded, summary>>

\* destroy(): if (this.healthCheckInterval) { clearInterval(...); ... = null }
\* clears the timer of the handle held, and no other.
Destroy ==
    /\ IF healthCheckInterval
       THEN timer' = timer - 1 /\ healthCheckInterval' = FALSE
       ELSE UNCHANGED <<timer, healthCheckInterval>>
    /\ UNCHANGED <<currentRegion, healthKeys, regionHealth, latencyCache, failoverHistory,
                   reply, probe, calls, clock, recorded, summary>>

\* getRegionStatus() is called and returns.
GetRegionStatus ==
    /\ reply = NoReply
    /\ reply' = [op |-> "getRegionStatus",
                 value |-> getRegionStatus(regionHealth, healthKeys, latencyCache,
                                           currentRegion)]
    /\ UNCHANGED <<currentRegion, healthKeys, regionHealth, latencyCache, failoverHistory,
                   healthCheckInterval, timer, probe, calls, clock, recorded, summary>>

\* Faulty variant of GetFailoverStats: the history is emptied once reported.
GetFailoverStats_drain(now) ==
    /\ reply = NoReply
    /\ reply' = [op |-> "getFailoverStats", value |-> getFailoverStats(failoverHistory, now)]
    /\ failoverHistory' = <<>>
    /\ UNCHANGED <<currentRegion, healthKeys, regionHealth, latencyCache,
                   healthCheckInterval, timer, probe, calls, clock, recorded, summary>>

\* getFailoverStats() is called while the wall clock reads `now`, and returns.
GetFailoverStats(now) ==
    /\ reply = NoReply
    /\ reply' = [op |-> "getFailoverStats", value |-> getFailoverStats(failoverHistory, now)]
    /\ UNCHANGED <<currentRegion, healthKeys, regionHealth, latencyCache, failoverHistory,
                   healthCheckInterval, timer, probe, calls, clock, recorded, summary>>

\* Faulty variant of GetBestRegion: the choice is remembered as a sample of 0 ms
\* in the chosen region's window.
GetBestRegion_touchesWindow(userCountry) ==
    /\ reply = NoReply
    /\ LET best == getBestRegion(regionHealth, healthKeys, latencyCache, currentRegion,
                                 userCountry)
       IN /\ reply' = [op |-> "getBestRegion", hint |-> userCountry, value |-> best]
          /\ latencyCache' = updateLatencyCache(latencyCache, best, 0)
    /\ UNCHANGED <<currentRegion, healthKeys, regionHealth, failoverHistory,
                   healthCheckInterval, timer, probe, calls, clock, recorded, summary>>

\* getBestRegion(clientIP, userCountry) is called and returns.
GetBestRegion(userCountry) ==
    /\ reply = NoReply
    /\ reply' = [op |-> "getBestRegion", hint |-> userCountry,
                 value |-> getBestRegion(regionHealth, healthKeys, latencyCache,
                                         currentRegion, userCountry)]
    /\ UNCHANGED <<currentRegion, healthKeys, regionHealth, latencyCache, failoverHistory,
                   healthCheckInterval, timer, probe, calls, clock, recorded, summary>>

\* The caller of a reporter takes the returned value.
TakeReply ==
    /\ reply /= NoReply
    /\ reply' = NoReply
    /\ UNCHANGED <<currentRegion, healthKeys, regionHealth, latencyCache, failoverHistory,
                   healthCheckInterval, timer, probe, calls, clock, recorded, summary>>

\* ---------------------------------------------------------- specification
\* Spec: one invocation of executeWithFailover, with any geography hint and
\* retry bound, while the probes of the initial check settle in any order.
Countries == {NoCountry, "US", "constructor"}

ProbeLatencies == {Ms(100), Ms(450)}

Durations == {Ms(300) + 1}      \* 300.5 ms

Errors == {HttpError(404), HttpError(503), ConnError}

Next ==
    \/ \E r \in REGIONS, l \in ProbeLatencies : ProbeResolve(r, 200, l)
    \/ \E r \in REGIONS : ProbeReject(r)
    \/ \E k \in Checks : Summarise(k)
    \/ \E u \in Countries, m \in 0..MaxRetriesBound : Call("c1", u, m)
    \/ \E d \in Durations : RespondOk("c1", d)
    \/ \E e \in Errors : RespondErr("c1", e, clock + 1)

Spec == Init /\ [][Next]_vars

\* The start of a process whose AWS_REGION is unset: currentRegion is 'us-east-1'.
InitDefaultRegion == Init /\ currentRegion = "us-east-1"

\* SpecRace: two concurrent invocations; every probe of the initial check
\* succeeds, in any order and at any moment of the two calls.
RaceErrors == {HttpError(503), ConnError}

NextRace ==
    \/ \E r \in REGIONS : ProbeResolve(r, 200, Ms(100))
    \/ \E k \in Checks : Summarise(k)
    \/ \E c \in Callers, m \in 0..MaxRetriesBound : Call(c, NoCountry, m)
    \/ \E c \in Callers, d \in Durations : RespondOk(c, d)
    \/ \E c \in Callers, e \in RaceErrors : RespondErr(c, e, clock + 1)

SpecRace == InitDefaultRegion /\ [][NextRace]_vars

\* SpecWindow: only us-east-1 is reachable, the probes of the other regions
\* time out in the order they were issued; the window of us-east-1 is fed by
\* the probes of successive ticks (each check is over before the next tick),
\* by successful live requests and by direct calls of updateLatencyCache, in
\* any interleaving.
Unreachable == SubSeq(RegionIds, 2, Len(RegionIds))

\* The probe of every unreachable region issued before that of
\* Unreachable[i] has timed out.
TimesOutNext(i) == \A j \in 1..(i - 1) : ~Inflight(probe, Unreachable[j])

DirectSamples == {Ms(200)}

\* The direct calls made so far.
Directs ==
    Cardinality({i \in 1..Len(recorded["us-east-1"]) :
                    recorded["us-east-1"][i] \in DirectSamples})

NextWindow ==
    \/ (Len(recorded["us-east-1"]) < MaxSamples /\ Quiet(probe) /\ Tick)
    \/ ProbeResolve("us-east-1", 200, Ms(100))
    \/ \E i \in 1..Len(Unreachable) : TimesOutNext(i) /\ ProbeReject(Unreachable[i])
    \/ \E k \in Checks : Summarise(k)
    \/ (Len(recorded["us-east-1"]) < MaxSamples /\ Directs < MaxDirect
            /\ \E l \in DirectSamples : UpdateLatencyCache("us-east-1", l))
    \/ (Len(recorded["us-east-1"]) < MaxSamples /\ Call("c1", NoCountry, DefaultMaxRetries))
    \/ \E d \in Durations : RespondOk("c1", d)
    \/ Collect("c1")

SpecWindow == InitDefaultRegion /\ [][NextWindow]_vars

\* SpecHistory: only us-east-1 is reachable and every live request to it
\* times out, call after call, until the history has overflowed.
NextHistory ==
    \/ ProbeResolve("us-east-1", 200, Ms(100))
    \/ \E r \in REGIONS \ {"us-east-1"} : ProbeReject(r)
    \/ \E k \in Checks : Summarise(k)
    \/ (clock < MaxHistEvents /\ Call("c1", NoCountry, DefaultMaxRetries))
    \/ RespondErr("c1", ConnError, clock + 1)
    \/ Collect("c1")

SpecHistory == InitDefaultRegion /\ [][NextHistory]_vars

\* SpecStats: SpecHistory where getFailoverStats is called between the steps
\* (its caller takes the value at once), right after the last failure or a
\* day later.
NextStats ==
    \/ (reply = NoReply /\ NextHistory)
    \/ \E now \in {clock, clock + Day} : GetFailoverStats(now)
    \/ TakeReply

SpecStats == InitDefaultRegion /\ [][NextStats]_vars

\* SpecProbe: the initial check alone, each probe answered 200 or 204 with a
\* latency well below, just below or exactly at twice the region's
\* threshold, or rejected.
ProbeStatuses == {200, 204}

BoundaryLatencies(r) ==
    {Ms(100), Ms(latencyThreshold(r) * 2) - 1, Ms(latencyThreshold(r) * 2)}

NextProbe ==
    \/ \E r \in REGIONS, st \in ProbeStatuses :
            \E l \in BoundaryLatencies(r) : ProbeResolve(r, st, l)
    \/ \E r \in REGIONS : ProbeReject(r)
    \/ \E k \in Checks : Summarise(k)

SpecProbe == Init /\ [][NextProbe]_vars

\* SpecTick: the health monitor alone, tick after tick until destroy(), each
\* check over before the next tick. Any
\* probe can be answered 200; a probe of us-east-1 can also be answered 204
\* (a 2xx other than 200), and a probe of a US region can also be rejected.
Unreliable == {"us-east-1", "us-west-2"}

MoreRounds == \A r \in REGIONS : Len(recorded[r]) < MaxRounds

NextTick ==
    \/ (MoreRounds /\ Quiet(probe) /\ Tick)
    \/ \E r \in REGIONS : ProbeResolve(r, 200, Ms(100))
    \/ ProbeResolve("us-east-1", 204, Ms(150))
    \/ \E r \in Unreliable : ProbeReject(r)
    \/ \E k \in Checks : Summarise(k)
    \/ Destroy

SpecTick == Init /\ [][NextTick]_vars

\* SpecTickFair: SpecTick where every probe in flight eventually settles (it
\* is answered, or rejected by its 5 s timeout at the latest).
SettleProbe(r) ==
    \/ ProbeResolve(r, 200, Ms(100))
    \/ (r = "us-east-1" /\ ProbeResolve(r, 204, Ms(150)))
    \/ (r \in Unreliable /\ ProbeReject(r))

SpecTickFair ==
    /\ SpecTick
    /\ \A r \in REGIONS : WF_vars(SettleProbe(r))
    /\ \A k \in Checks : WF_vars(Summarise(k))

\* SpecLifecycle: the health monitor alone, where a tick can find the probes
\* of the check before it still in flight, and initializeHealthChecks() and
\* checkAllRegionsHealth() are also called directly, before and after
\* destroy(); a probe is answered 200, and a probe of us-west-2 can also be
\* rejected.
NextLifecycle ==
    \/ (MoreRounds /\ Tick)
    \/ (MoreRounds /\ InitializeHealthChecks)
    \/ (MoreRounds /\ CheckAllRegionsHealth)
    \/ \E r \in REGIONS : ProbeResolve(r, 200, Ms(100))
    \/ ProbeReject("us-west-2")
    \/ \E k \in Checks : Summarise(k)
    \/ Destroy

SpecLifecycle == Init /\ [][NextLifecycle]_vars

\* SpecReport: the reporters are called at any moment of the initial check
\* and of one invocation whose requests succeed or are answered 503.
\* Wall-clock readings (ms) of SpecReport: the clock is not steady, it can be
\* set back between two failures and between a failure and a report.
StampTimes == {1, Day + 1}

ReadTimes == {Day, Day + 1, 2 * Day + 1}

NextReport ==
    \/ \E r \in REGIONS : ProbeResolve(r, 200, Ms(100))
    \/ \E r \in Unreliable : ProbeReject(r)
    \/ \E k \in Checks : Summarise(k)
    \/ Call("c1", NoCountry, DefaultMaxRetries)
    \/ \E d \in Durations : RespondOk("c1", d)
    \/ \E now \in StampTimes : RespondErr("c1", HttpError(503), now)
    \/ GetRegionStatus
    \/ \E now \in ReadTimes : GetFailoverStats(now)
    \/ TakeReply

SpecReport == InitDefaultRegion /\ [][NextReport]_vars

\* SpecLive: one invocation during the initial check, with any retry bound;
\* every request it issues is eventually answered, fails or times out.
Settle(c) ==
    \/ \E d \in Durations : RespondOk(c, d)
    \/ \E e \in Errors : RespondErr(c, e, clock + 1)

NextLive ==
    \/ \E r \in REGIONS : ProbeResolve(r, 200, Ms(100))
    \/ \E r \in Unreliable : ProbeReject(r)
    \/ \E k \in Checks : Summarise(k)
    \/ \E u \in Countries, m \in 0..MaxRetriesBound : Call("c1", u, m)
    \/ Settle("c1")

SpecLive == InitDefaultRegion /\ [][NextLive]_vars /\ WF_vars(Settle("c1"))

\* SpecZero: a probe can be answered within the clock's resolution (a measured
\* latency of 0 ms); one invocation without geography hint.
ZeroLatencies == {0, Ms(100)}

NextZero ==
    \/ \E r \in REGIONS, l \in ZeroLatencies : ProbeResolve(r, 200, l)
    \/ \E k \in Checks : Summarise(k)
    \/ Call("c1", NoCountry, DefaultMaxRetries)
    \/ \E d \in Durations : RespondOk("c1", d)
    \/ RespondErr("c1", HttpError(503), clock + 1)

SpecZero == InitDefaultRegion /\ [][NextZero]_vars

\* SpecRecover: one invocation, answered 503 or served, while the monitor
\* goes on ticking (each check is over before the next tick); a probe of
\* us-east-1 can also be slow or rejected.
NextRecover ==
    \/ (MoreRounds /\ Quiet(probe) /\ Tick)
    \/ \E r \in REGIONS : ProbeResolve(r, 200, Ms(100))
    \/ ProbeResolve("us-east-1", 200, Ms(450))
    \/ ProbeReject("us-east-1")
    \/ \E k \in Checks : Summarise(k)
    \/ Call("c1", NoCountry, DefaultMaxRetries)
    \/ \E d \in Durations : RespondOk("c1", d)
    \/ RespondErr("c1", HttpError(503), clock + 1)

SpecRecover == InitDefaultRegion /\ [][NextRecover]_vars

\* SpecSelect: getBestRegion is called at any moment of the initial check and
\* of one invocation, with no hint, a mapped hint or an unmapped one.
SelectHints == {NoCountry, "US", "GB", "BR", "constructor"}

NextSelect ==
    \/ \E r \in REGIONS, l \in ProbeLatencies : ProbeResolve(r, 200, l)
    \/ \E r \in Unreliable : ProbeReject(r)
    \/ \E k \in Checks : Summarise(k)
    \/ Call("c1", NoCountry, DefaultMaxRetries)
    \/ \E d \in Durations : RespondOk("c1", d)
    \/ RespondErr("c1", HttpError(503), clock + 1)
    \/ \E u \in SelectHints : GetBestRegion(u)
    \/ TakeReply

SpecSelect == InitDefaultRegion /\ [][NextSelect]_vars

\* SpecStale: SpecRecover where no tick starts once a request has failed, so
\* a probe that completes after a failure was issued before it.
NextStale ==
    \/ (failoverHistory = <<>> /\ MoreRounds /\ Quiet(probe) /\ Tick)
    \/ \E r \in REGIONS : ProbeResolve(r, 200, Ms(100))
    \/ ProbeResolve("us-east-1", 200, Ms(450))
    \/ ProbeReject("us-east-1")
    \/ \E k \in Checks : Summarise(k)
    \/ Call("c1", NoCountry, DefaultMaxRetries)
    \/ \E d \in Durations : RespondOk("c1", d)
    \/ RespondErr("c1", HttpError(503), clock + 1)

SpecStale == InitDefaultRegion /\ [][NextStale]_vars

\* SpecStorm: two concurrent invocations with the default retry bound whose
\* every request is answered 500 or 503, while the probes of the initial
\* check succeed.
StormErrors == {HttpError(500), HttpError(503)}

NextStorm ==
    \/ \E r \in REGIONS : ProbeResolve(r, 200, Ms(100))
    \/ \E k \in Checks : Summarise(k)
    \/ \E c \in Callers : Call(c, NoCountry, DefaultMaxRetries)
    \/ \E c \in Callers, e \in StormErrors : RespondErr(c, e, clock + 1)

SpecStorm == InitDefaultRegion /\ [][NextStorm]_vars

\* ------------------------------------------------------------------ claims
IndexOf(s, x) == CHOOSE i \in 1..Len(s) : s[i] = x

\* The region a frame's pending request was sent to.
Target(frame) == frame.regionOrder[frame.idx]

\* Caller c's pending request has just failed with an error satisfying Kind.
Failing(c, Kind(_)) ==
    /\ calls[c].pc = "await"
    /\ Len(calls'[c].failed) = Len(calls[c].failed) + 1
    /\ Kind(calls'[c].failed[Len(calls'[c].failed)])

ServerClass(error) == error.response /\ error.status >= 500

ClientClass(error) == error.response /\ error.status >= 400 /\ error.status < 500

ConnectionLevel(error) == ~error.response

\* C1: every region's latency window holds at most 10 samples and equals the
\* last min(10, k) of the k samples recorded for it (by probes and by
\* successful live requests), in recording order.
C1_WindowIsLastSamples ==
    \A r \in REGIONS :
        /\ Len(latencyCache[r]) <= WindowCap
        /\ latencyCache[r] = LastN(recorded[r], Min(WindowCap, Len(recorded[r])))

\* A full window has evicted its oldest sample and holds samples of a probe,
\* of a live request and of a direct call.
C1_Witness ==
    /\ Len(recorded["us-east-1"]) > WindowCap
    /\ Len(latencyCache["us-east-1"]) = WindowCap
    /\ ({Ms(100)} \cup Durations \cup DirectSamples) \subseteq Range(latencyCache["us-east-1"])
    /\ recorded["us-east-1"][1] /= latencyCache["us-east-1"][1]

\* C2: the failover history never holds more than 100 entries and is always
\* the most recent min(100, k) of the k failure events, in order of occurrence.
C2_HistoryIsLastEvents ==
    /\ Len(failoverHistory) = Min(HistoryCap, clock)
    /\ \A i \in 1..Len(failoverHistory) :
           failoverHistory[i].timestamp = clock - Len(failoverHistory) + i

\* The full history has evicted its oldest entries.
C2_Witness == Len(failoverHistory) = HistoryCap /\ clock > HistoryCap

\* C3: within one call the candidate list is fixed when the call starts and
\* the regions are attempted in the order of that list, whatever happens to
\* health and latency while the call is in flight.
C3_AttemptsFollowCandidateOrder ==
    [][\A c \in Callers :
          /\ calls[c].pc = "await" => calls'[c].regionOrder = calls[c].regionOrder
          /\ LET f == calls'[c]
             IN \A i, j \in 1..Len(f.tried) :
                    i < j => \E a, b \in 1..Len(f.regionOrder) :
                                /\ a < b
                                /\ f.regionOrder[a] = f.tried[i]
                                /\ f.regionOrder[b] = f.tried[j]]_vars

\* A call is at its second or later attempt while the ranking has changed
\* under it: computed now, the candidate list would be another one.
C3_Witness ==
    \E c \in Callers :
        /\ calls[c].pc = "await"
        /\ Len(calls[c].tried) >= 2
        /\ calls[c].regionOrder /=
               RegionOrder(regionHealth, healthKeys, latencyCache, currentRegion,
                           calls[c].userCountry)

\* C4: a live request that fails with a status >= 500 marks its region not
\* healthy in the step that handles the failure, before the next request is
\* issued; when the second candidate then succeeds the call returns that
\* region with attempts = 2.
C4_ServerErrorMarksThenFailsOver ==
    [][\A c \in Callers :
          /\ Failing(c, ServerClass) => ~regionHealth'[Target(calls[c])].healthy
          /\ LET f == calls'[c]
             IN (f.pc = "done" /\ f.outcome = "success" /\ Len(f.failed) = 1
                 /\ ServerClass(f.failed[1]))
                => (f.region = f.tried[2] /\ f.attempts = 2)]_vars

\* A 503 from the first candidate, success from the second.
C4_Witness ==
    /\ calls["c1"].pc = "done"
    /\ calls["c1"].outcome = "success"
    /\ calls["c1"].failed = <<HttpError(503)>>
    /\ calls["c1"].region = calls["c1"].regionOrder[2]
    /\ ~regionHealth[calls["c1"].regionOrder[1]].healthy

\* C5 as stated: a connection-level failure of a live request marks the
\* region not healthy in the step that handles the failure.
C5_ConnectionFailureMarksUnhealthy ==
    [][\A c \in Callers :
          Failing(c, ConnectionLevel) => ~regionHealth'[Target(calls[c])].healthy]_vars

\* C6 as stated: once the top candidate has answered with a 4xx status the
\* call is over with attempts = 1.
C6_ClientErrorEndsCall ==
    \A c \in Callers :
        (calls[c].failed /= <<>> /\ ClientClass(calls[c].failed[1]))
        => (calls[c].pc = "done" /\ calls[c].attempts = 1)

\* C7: handling a 4xx failure of a live request leaves the health record of
\* the region that answered unchanged.
C7_ClientErrorKeepsHealth ==
    [][\A c \in Callers :
          Failing(c, ClientClass)
          => regionHealth'[Target(calls[c])] = regionHealth[Target(calls[c])]]_vars

\* A request was answered 404 and its region is still healthy.
C7_Witness ==
    /\ calls["c1"].failed /= <<>>
    /\ calls["c1"].failed[Len(calls["c1"].failed)] = HttpError(404)
    /\ regionHealth[calls["c1"].tried[Len(calls["c1"].failed)]].healthy

\* C8: a call whose every request failed ends with an exhaustion error whose
\* attempt count is the number of requests it issued; the count is at most
\* maxRetries, and below maxRetries only when every candidate was either
\* sent a request or found not healthy (or unconfigured) at its turn.
C8_ExhaustionCountsRequests ==
    \A c \in Callers :
        (calls[c].pc = "done" /\ calls[c].outcome = "exhausted")
        => /\ calls[c].attempts = Len(calls[c].tried)
           /\ calls[c].attempts = Len(calls[c].failed)
           /\ calls[c].attempts <= calls[c].maxRetries
           /\ calls[c].attempts < calls[c].maxRetries
              => \A k \in 1..Len(calls[c].regionOrder) :
                     \/ calls[c].regionOrder[k] \in Range(calls[c].tried)
                     \/ k \in calls[c].passed

\* Both kinds of exhaustion: a call that used all its maxRetries >= 2
\* requests, and a call that ended below maxRetries after a candidate was
\* found not healthy at its turn.
C8_Witness ==
    \E c, d \in Callers :
        /\ calls[c].pc = "done" /\ calls[c].outcome = "exhausted"
        /\ calls[c].attempts = calls[c].maxRetries /\ calls[c].attempts >= 2
        /\ calls[d].pc = "done" /\ calls[d].outcome = "exhausted"
        /\ calls[d].attempts >= 1 /\ calls[d].attempts < calls[d].maxRetries
        /\ calls[d].passed /= {}

\* C9: a call issues at most min(maxRetries, number of candidates) requests.
C9_RequestsBounded ==
    \A c \in Callers :
        /\ calls[c].attempts = Len(calls[c].tried)
        /\ Len(calls[c].tried) <= Min(calls[c].maxRetries, Len(calls[c].regionOrder))

\* A call has issued maxRetries requests although it passed over a candidate
\* that was healthy when the list was computed.
C9_Witness ==
    \E c \in Callers :
        /\ ~calls[c].noneHealthy
        /\ calls[c].passed /= {}
        /\ calls[c].attempts = calls[c].maxRetries
        /\ calls[c].attempts >= 2

\* C10 as stated: a call made while no region is healthy gets the current
\* region as its candidate and sends it a request.
C10_NoHealthyStillAttempts ==
    \A c \in Callers :
        (calls[c].pc /= "idle" /\ calls[c].noneHealthy /\ calls[c].maxRetries >= 1)
        => /\ calls[c].regionOrder = <<currentRegion>>
           /\ calls[c].tried = <<currentRegion>>

\* The geography hints: none, every key of GEO_REGIONS, and an unmapped code.
Hints == {NoCountry, "US", "CA", "GB", "DE", "FR", "SG", "JP", "AU", "BR", "constructor"}

\* C11: whenever some region is healthy, getBestRegion returns a healthy
\* region for every geography hint; a hint whose regions are all unhealthy
\* gets the region chosen from the full healthy set.
C11_BestRegionIsHealthy ==
    HealthyRegions(regionHealth, healthKeys) /= <<>>
    => \A u \in Hints :
          LET best == getBestRegion(regionHealth, healthKeys, latencyCache,
                                    currentRegion, u)
              mapped == Range(GEO_REGIONS(u))
          IN /\ IsHealthy(regionHealth, healthKeys, best)
             /\ (\A r \in mapped : ~IsHealthy(regionHealth, healthKeys, r))
                => best = selectByLatency(latencyCache,
                                          HealthyRegions(regionHealth, healthKeys))

\* C12: getAverageLatency is null exactly for a region without recorded
\* sample, and otherwise the mean of the last min(10, k) recorded samples.
C12_AverageIsWindowMean ==
    \A r \in REGIONS :
        LET avg == getAverageLatency(latencyCache, r)
            last == LastN(recorded[r], Min(WindowCap, Len(recorded[r])))
        IN /\ avg = <<>> <=> recorded[r] = <<>>
           /\ avg /= <<>> => (avg[2] = Len(last) /\ avg[1] = Sum(last) /\ avg[2] >= 1)

\* A region whose window has overflowed, with samples of a probe and of a
\* live request, next to a region without any sample.
C12_Witness ==
    /\ Len(recorded["us-east-1"]) > WindowCap
    /\ ({Ms(100)} \cup Durations) \subseteq Range(latencyCache["us-east-1"])
    /\ getAverageLatency(latencyCache, "us-east-1") /= <<>>
    /\ getAverageLatency(latencyCache, "us-west-2") = <<>>

\* C18: a request is only ever issued to a region that has a health record
\* saying healthy at the moment of the request.
C18_RequestsGoToHealthyRegions ==
    [][\A c \in Callers :
          Len(calls'[c].tried) > Len(calls[c].tried)
          => IsHealthy(regionHealth', healthKeys', Target(calls'[c]))]_vars

\* A call has passed over a candidate that was healthy when the list was
\* computed and has sent its request to a later one.
C18_Witness ==
    \E c \in Callers :
        /\ calls[c].pc = "await"
        /\ ~calls[c].noneHealthy
        /\ \E k \in calls[c].passed : k < calls[c].idx

\* The step records the outcome of a probe of region r.
Settles(r) == \E k \in Checks : probe[k][r] = "inflight" /\ probe'[k][r] /= "inflight"

\* The region's record was written by a probe that resolved.
Resolved(r) == Has(healthKeys, r) /\ ~regionHealth[r].error

\* The probe that wrote region r's record resolved 200 with a measured
\* latency strictly below twice the region's threshold.
OkAndFast(health, r) ==
    /\ health[r].statusCode = <<200>>
    /\ health[r].responseTime[1] < Ms(2 * latencyThreshold(r))

\* C19: after a probe that resolved, healthy is true exactly when the status
\* is 200 and the measured latency is strictly below twice the region's
\* threshold.
C19_HealthyIffOkAndFast ==
    \A r \in REGIONS :
        Resolved(r) => (regionHealth[r].healthy <=> OkAndFast(regionHealth, r))

\* A probe answered 200 in exactly twice the threshold (400 ms, not healthy)
\* next to one answered 200 half a millisecond below it (499.5 ms), healthy
\* with a record whose rounded latency is twice the threshold.
C19_Witness ==
    /\ Resolved("us-east-1")
    /\ regionHealth["us-east-1"].statusCode = <<200>>
    /\ regionHealth["us-east-1"].responseTime = <<Ms(400)>>
    /\ regionHealth["us-east-1"].latency = <<400>>
    /\ ~regionHealth["us-east-1"].healthy
    /\ Resolved("us-west-2")
    /\ regionHealth["us-west-2"].responseTime = <<Ms(500) - 1>>
    /\ regionHealth["us-west-2"].latency = <<500>>
    /\ regionHealth["us-west-2"].healthy

\* C13: when concurrent calls each handle a server-class failure of the same
\* region, every such step writes the whole mark at once (the record it found
\* with healthy = false and lastError = this failure's message, every other
\* record untouched), writing the mark again changes nothing, and no step
\* of an executor turns a record that is not healthy back to healthy.
C13_ConcurrentMarksConsistent ==
    [][/\ \A c \in Callers :
             Failing(c, ServerClass)
             => LET regionId == Target(calls[c])
                    error == calls'[c].failed[Len(calls'[c].failed)]
                IN /\ regionHealth'[regionId] =
                          [regionHealth[regionId] EXCEPT !.healthy = FALSE,
                                                         !.lastError = <<Message(error)>>]
                   /\ \A r \in REGIONS \ {regionId} : regionHealth'[r] = regionHealth[r]
                   /\ MarkUnhealthy(regionHealth', healthKeys', regionId, error)
                          = regionHealth'
       /\ (\A r \in REGIONS : ~Settles(r))
          => \A r \in REGIONS :
                 (Has(healthKeys, r) /\ ~regionHealth[r].healthy)
                 => ~regionHealth'[r].healthy]_vars

\* Two calls had a request pending at the same region; one was answered 500,
\* then the other 503: the record is not healthy and carries the later message.
C13_Witness ==
    \E c, d \in Callers :
        /\ c /= d
        /\ calls[c].failed /= <<>> /\ calls[d].failed /= <<>>
        /\ calls[c].tried[1] = calls[d].tried[1]
        /\ calls[c].failed[1] = HttpError(500)
        /\ calls[d].failed[1] = HttpError(503)
        /\ ~regionHealth[calls[c].tried[1]].healthy
        /\ regionHealth[calls[c].tried[1]].lastError = <<Message(HttpError(503))>>
        /\ regionHealth[calls[c].tried[1]].status = "healthy"

\* C14: the step that records the outcome of region R's probe (resolved or
\* rejected) changes neither the health record, nor the latency window, nor
\* the pending probe of any other region; and a probe in flight can be
\* recorded whatever the state of the other regions' probes.
C14_ProbeOutcomeIsolated ==
    [][\A r \in REGIONS :
          /\ Settles(r)
             => \A q \in REGIONS \ {r} :
                    /\ regionHealth'[q] = regionHealth[q]
                    /\ latencyCache'[q] = latencyCache[q]
                    /\ \A k \in Checks : probe'[k][q] = probe[k][q]
                    /\ Has(healthKeys', q) <=> Has(healthKeys, q)
          /\ Inflight(probe, r) => ENABLED ProbeResolve(r, 200, Ms(100))]_vars

\* In a later tick the probe of us-east-1 is still pending and the probe of
\* us-west-2 was rejected, while the other two regions have their new
\* sample and the window of us-west-2 kept its earlier one.
C14_Witness ==
    /\ Inflight(probe, "us-east-1")
    /\ ~Inflight(probe, "us-west-2")
    /\ regionHealth["us-west-2"].error
    /\ Len(latencyCache["us-west-2"]) = 1
    /\ \A q \in {"eu-west-1", "ap-southeast-1"} :
           /\ ~Inflight(probe, q)
           /\ regionHealth[q].healthy
           /\ Len(latencyCache[q]) = 2

\* C15: a call that has started eventually ends, and it ends in exactly one
\* of two ways: with a success result naming the region of its last request,
\* whatever failures came before in the same call, or with the exhaustion
\* error after every request it issued has failed.
C15_CallEndsOneWay ==
    /\ (calls["c1"].pc = "await") ~> (calls["c1"].pc = "done")
    /\ [](calls["c1"].pc = "done"
          => LET f == calls["c1"]
             IN \/ /\ f.outcome = "success"
                   /\ Len(f.failed) = Len(f.tried) - 1
                   /\ f.region = f.tried[Len(f.tried)]
                   /\ f.attempts = Len(f.tried)
                \/ /\ f.outcome = "exhausted"
                   /\ Len(f.failed) = Len(f.tried))

\* C16 as stated: once destroy() has run (the timer handle is null) no timer
\* starts a check, until initializeHealthChecks() is called again; a probe
\* still in flight can complete, and a further destroy() changes nothing.
C16_NoTickAfterDestroy ==
    [][~healthCheckInterval
       => /\ ~Tick
          /\ \A r \in REGIONS : Inflight(probe, r) => ENABLED ProbeResolve(r, 200, Ms(100))
          /\ Destroy => UNCHANGED vars]_vars

\* C17: a step in which getRegionStatus or getFailoverStats returns leaves
\* every health record, every latency window and the failover history
\* unchanged; called before any probe has completed and any failure was
\* recorded, they return zero counts and empty collections.
C17_ReportersReadOnly ==
    [][(reply = NoReply /\ reply' /= NoReply)
       => /\ UNCHANGED <<healthKeys, regionHealth, latencyCache, failoverHistory>>
          /\ (reply'.op = "getRegionStatus" /\ healthKeys = <<>>)
             => /\ reply'.value.healthyRegions = 0
                /\ reply'.value.unhealthyRegions = 0
                /\ DOMAIN reply'.value.regions = {}
                /\ reply'.value.totalRegions = Cardinality(REGIONS)
          /\ (reply'.op = "getFailoverStats" /\ failoverHistory = <<>>)
             => /\ reply'.value.totalFailovers = 0
                /\ reply'.value.last24Hours = 0
                /\ DOMAIN reply'.value.regionFailures = {}
                /\ reply'.value.recentFailovers = <<>>]_vars

\* getFailoverStats has returned while two failures are in the history, one
\* of them older than 24 h, and some region has a health record.
C17_Witness ==
    /\ reply.op = "getFailoverStats"
    /\ reply.value.totalFailovers = 2
    /\ reply.value.last24Hours = 1
    /\ Len(failoverHistory) = 2
    /\ failoverHistory[2].timestamp < failoverHistory[1].timestamp
    /\ DOMAIN reply.value.regionFailures = {failoverHistory[1].fromRegion}
    /\ healthKeys /= <<>>

\* C20 as stated: the step that records a probe that did not return 200
\* (rejected, or answered with another status) sets status unhealthy,
\* healthy = false and an error message, and leaves the region's latency
\* window unchanged.
C20_FailedProbeLeavesWindow ==
    [][\A r \in REGIONS :
          (Settles(r) /\ regionHealth'[r].statusCode /= <<200>>)
          => /\ regionHealth'[r].status = "unhealthy"
             /\ ~regionHealth'[r].healthy
             /\ regionHealth'[r].error
             /\ latencyCache'[r] = latencyCache[r]]_vars

\* C21: the step in which a pending request succeeds ends the call: the
\* result names the region of that request and its attempt number, the
\* duration is appended to that region's window (the oldest sample leaving a
\* full window) and to no other, the result carries the duration rounded to
\* the millisecond, and a call that has ended sends no request.
C21_SuccessEndsCall ==
    [][\A c \in Callers :
          /\ (calls[c].pc = "await" /\ calls'[c] /= calls[c]
              /\ calls'[c].failed = calls[c].failed)
             => LET regionId == Target(calls[c])
                    duration == recorded'[regionId][Len(recorded'[regionId])]
                    pushed == Append(latencyCache[regionId], duration)
                IN /\ calls'[c].pc = "done"
                   /\ Len(recorded'[regionId]) = Len(recorded[regionId]) + 1
                   /\ calls'[c].latency = Round(duration)
                   /\ calls'[c].outcome = "success"
                   /\ calls'[c].region = regionId
                   /\ calls'[c].attempts = calls[c].attempts
                   /\ calls'[c].attempts = Len(calls[c].tried)
                   /\ calls'[c].tried = calls[c].tried
                   /\ latencyCache'[regionId] = LastN(pushed, Min(WindowCap, Len(pushed)))
                   /\ \A q \in REGIONS \ {regionId} : latencyCache'[q] = latencyCache[q]
          /\ (calls[c].pc = "done" /\ calls'[c].pc = "done")
             => calls'[c].tried = calls[c].tried]_vars

\* The second candidate has served the call; two more candidates of the
\* list were never sent a request, and the duration is the newest sample.
C21_Witness ==
    /\ calls["c1"].pc = "done"
    /\ calls["c1"].outcome = "success"
    /\ calls["c1"].attempts = 2
    /\ calls["c1"].maxRetries = 3
    /\ Len(calls["c1"].regionOrder) = 4
    /\ calls["c1"].region = calls["c1"].regionOrder[2]
    /\ latencyCache[calls["c1"].region] = <<Ms(100), Ms(300) + 1>>
    /\ calls["c1"].latency = 301

\* The region identifiers in ascending (lexicographic) order.
SortedIds == <<"ap-southeast-1", "eu-west-1", "us-east-1", "us-west-2">>

\* a <= b for two averages; null (<<>>) is above every number.
AvgLeq(a, b) == b = <<>> \/ (a /= <<>> /\ a[1] * b[2] <= b[1] * a[2])

\* Region a may stand before region b: lower average latency, or the same
\* average and lower priority number, or the same of both and a lower identifier.
RankedBefore(cache, a, b) ==
    LET la == getAverageLatency(cache, a)
        lb == getAverageLatency(cache, b)
    IN /\ AvgLeq(la, lb)
       /\ AvgLeq(lb, la)
          => \/ priority(a) < priority(b)
             \/ /\ priority(a) = priority(b)
                /\ IndexOf(SortedIds, a) <= IndexOf(SortedIds, b)

\* C22 as stated: the candidate list a call without geography hint computes
\* is ascending by average latency, ties ordered by ascending priority and
\* then by identifier.
C22_OrderByLatencyPriorityId ==
    [][\A c \in Callers :
          (calls[c].pc = "idle" /\ calls'[c].pc /= "idle"
           /\ calls'[c].userCountry = NoCountry)
          => LET order == calls'[c].regionOrder
             IN \A i, j \in 1..Len(order) :
                    i < j => RankedBefore(latencyCache, order[i], order[j])]_vars

\* The regions mapped to the geography of a frame's hint.
Geography(frame) == Range(GEO_REGIONS(frame.userCountry))

\* The frame's call was made with a hint while some region of the hint's
\* geography was healthy (its first candidate is then one of them).
HintServed(frame) ==
    /\ frame.pc /= "idle"
    /\ frame.userCountry /= NoCountry
    /\ ~frame.noneHealthy
    /\ frame.regionOrder /= <<>>
    /\ frame.regionOrder[1] \in Geography(frame)

\* C23 as stated: a call made with a hint whose geography had a healthy
\* region sends requests to regions of that geography only.
C23_AttemptsStayInGeography ==
    \A c \in Callers :
        HintServed(calls[c]) => Range(calls[c].tried) \subseteq Geography(calls[c])

\* C23 amended: when a call is made with a hint and some region of the
\* hint's geography is healthy, the first candidate is a healthy region of
\* that geography and gets the first request; the other candidates are all
\* the other healthy regions, of that geography or not.
C23_FirstAttemptInGeography ==
    [][\A c \in Callers :
          LET u == calls'[c].userCountry
              order == calls'[c].regionOrder
              healthy == Range(HealthyRegions(regionHealth, healthKeys))
          IN (calls[c].pc = "idle" /\ calls'[c].pc /= "idle" /\ u /= NoCountry
              /\ Range(GEO_REGIONS(u)) \cap healthy /= {})
             => /\ order[1] \in Range(GEO_REGIONS(u)) \cap healthy
                /\ Range(order) = healthy
                /\ calls'[c].maxRetries >= 1 => calls'[c].tried = <<order[1]>>]_vars

\* A call with the hint "US" has sent its first request to a US region and
\* a later one to a region outside the US.
C23_Witness ==
    /\ calls["c1"].userCountry = "US"
    /\ Len(calls["c1"].tried) >= 2
    /\ calls["c1"].tried[1] \in Range(GEO_REGIONS("US"))
    /\ calls["c1"].tried[Len(calls["c1"].tried)] \notin Range(GEO_REGIONS("US"))

\* C24 as stated: the first candidate of a call made while some region is
\* healthy has samples, and its average latency is minimal among the healthy
\* regions that have samples, an average of 0 included.
C24_BestHasMinimalLatency ==
    [][\A c \in Callers :
          (calls[c].pc = "idle" /\ calls'[c].pc /= "idle" /\ ~calls'[c].noneHealthy)
          => LET best == calls'[c].regionOrder[1]
                 healthy == Range(HealthyRegions(regionHealth, healthKeys))
             IN /\ getAverageLatency(latencyCache, best) /= <<>>
                /\ \A r \in healthy :
                       getAverageLatency(latencyCache, r) /= <<>>
                       => AvgLeq(getAverageLatency(latencyCache, best),
                                 getAverageLatency(latencyCache, r))]_vars

\* Country codes that are no key of GEO_REGIONS.
Unmapped == {"BR", "ZZ", "constructor"}

\* C25: in every state, getBestRegion with a country code that maps to no
\* region returns the region it returns without hint.
C25_UnmappedHintIgnored ==
    \A u \in Unmapped :
        getBestRegion(regionHealth, healthKeys, latencyCache, currentRegion, u)
            = getBestRegion(regionHealth, healthKeys, latencyCache, currentRegion,
                            NoCountry)

\* Some caller's pending request fails in this step.
AnyFailure(error) == TRUE

\* C26: the step that handles a failed request appends exactly one event,
\* carrying the region of that request, the error's message and the number
\* of requests the call has issued so far; a step without failed request
\* (a success, a call starting, candidates passed over) leaves the history
\* as it is.
C26_OneEventPerFailedAttempt ==
    [][/\ \A c \in Callers :
             Failing(c, AnyFailure)
             => LET error == calls'[c].failed[Len(calls'[c].failed)]
                    event == [timestamp |-> clock + 1,
                              fromRegion |-> Target(calls[c]),
                              error |-> Message(error),
                              attempt |-> Len(calls[c].tried)]
                    pushed == Append(failoverHistory, event)
                IN /\ failoverHistory' = LastN(pushed, Min(HistoryCap, Len(pushed)))
                   /\ event.attempt = Len(calls'[c].failed)
       /\ (\A c \in Callers : ~Failing(c, AnyFailure))
          => failoverHistory' = failoverHistory]_vars

\* A call's second request went to its third candidate (the second was
\* passed over) and failed: the event for that region carries attempt 2.
C26_Witness ==
    \E c \in Callers :
        /\ Len(calls[c].failed) = 2
        /\ 2 \in calls[c].passed
        /\ calls[c].tried[2] = calls[c].regionOrder[3]
        /\ \E i \in 1..Len(failoverHistory) :
               /\ failoverHistory[i].fromRegion = calls[c].tried[2]
               /\ failoverHistory[i].attempt = 2

\* C27: no region has a health record at start; a request is only issued to
\* a region whose record was written by a probe that resolved 200 below twice
\* the threshold (so the region has a sample), never to a region without
\* record; and the first probe of a region to complete gives it a record
\* with status healthy or unhealthy.
C27_NoRequestBeforeFirstProbe ==
    [][/\ \A c \in Callers :
             Len(calls'[c].tried) > Len(calls[c].tried)
             => LET r == Target(calls'[c])
                IN /\ Has(healthKeys, r)
                   /\ ~regionHealth[r].error
                   /\ OkAndFast(regionHealth, r)
                   /\ recorded[r] /= <<>>
       /\ \A r \in REGIONS :
             (~Has(healthKeys, r) /\ Settles(r))
             => /\ Has(healthKeys', r)
                /\ regionHealth'[r].status \in {"healthy", "unhealthy"}
                /\ regionHealth'[r].healthy => regionHealth'[r].status = "healthy"
       /\ \A r \in REGIONS : Has(healthKeys, r) \/ recorded[r] = <<>>]_vars

\* A call has run out of candidates below its retry bound while the first
\* probe of some region was still pending: that region got no request.
C27_Witness ==
    /\ calls["c1"].pc = "done"
    /\ calls["c1"].outcome = "exhausted"
    /\ calls["c1"].attempts >= 1
    /\ calls["c1"].attempts < calls["c1"].maxRetries
    /\ \E r \in REGIONS :
           /\ ~Has(healthKeys, r)
           /\ Inflight(probe, r)
           /\ r \notin Range(calls["c1"].tried)

\* The step records a probe of region r that resolved 200 below twice the
\* region's threshold.
ProbeSucceeds(r) ==
    /\ Settles(r)
    /\ ~regionHealth'[r].error
    /\ OkAndFast(regionHealth', r)

\* C28: a record that is not healthy (marked by the executor or by a probe)
\* becomes healthy only in a step that records a probe of that region
\* resolved 200 below twice its threshold; every such step makes the record
\* healthy, mark or not; and no step of a call, a successful request
\* included, turns a record from not healthy to healthy.
C28_OnlyProbeRecovers ==
    [][/\ \A r \in REGIONS :
             /\ (Has(healthKeys, r) /\ ~regionHealth[r].healthy
                 /\ regionHealth'[r].healthy)
                => ProbeSucceeds(r)
             /\ ProbeSucceeds(r)
                => (regionHealth'[r].healthy /\ regionHealth'[r].lastError = <<>>)
       /\ \A c \in Callers :
             calls'[c] /= calls[c]
             => \A r \in REGIONS :
                    (Has(healthKeys, r) /\ ~regionHealth[r].healthy)
                    => ~regionHealth'[r].healthy]_vars

\* us-east-1 answered a request with 503 (which marked it) and is healthy
\* again, its mark gone, after a later probe.
C28_Witness ==
    /\ regionHealth["us-east-1"].healthy
    /\ regionHealth["us-east-1"].lastError = <<>>
    /\ \E i \in 1..Len(failoverHistory) :
           /\ failoverHistory[i].fromRegion = "us-east-1"
           /\ failoverHistory[i].error = Message(HttpError(503))

\* C29: a check that has begun eventually completes, rejected and timed-out
\* probes included; the step that completes it logs the summary, it comes
\* after every probe of the check has settled, and the summary counts no
\* region whose probe was rejected.
C29_TickReachesSummary ==
    /\ \A k \in Checks : (probe[k] /= Free) ~> (probe[k] = Free)
    /\ [][\A k \in Checks :
              (probe[k] /= Free /\ probe'[k] = Free)
              => /\ ~Pending(probe, k)
                 /\ summary' /= <<>>
                 /\ summary'[1] <= Cardinality({r \in REGIONS : probe[k][r] /= "rejected"})]_vars

\* A later check has reached its summary although the probe of us-east-1 was
\* rejected and that of us-west-2 had been rejected the check before: two
\* of four regions are healthy.
C29_Witness ==
    /\ Quiet(probe)
    /\ summary = <<2>>
    /\ regionHealth["us-east-1"].error
    /\ regionHealth["us-west-2"].error
    /\ Len(recorded["eu-west-1"]) >= 2

\* Region r is the choice among the candidates cands: the first of them
\* when none has a non-zero average, else the first of those with a non-zero
\* average whose average no other such candidate undercuts.
Chosen(cache, cands, r) ==
    LET rated == {i \in 1..Len(cands) : Truthy(getAverageLatency(cache, cands[i]))}
    IN IF rated = {} THEN r = cands[1]
       ELSE \E i \in rated :
               /\ r = cands[i]
               /\ \A j \in rated :
                      /\ AvgLeq(getAverageLatency(cache, cands[i]),
                                getAverageLatency(cache, cands[j]))
                      /\ j < i => ~AvgLeq(getAverageLatency(cache, cands[j]),
                                          getAverageLatency(cache, cands[i]))

\* The candidates of a selection: the healthy regions of the hint's
\* geography if there are any, else all healthy regions, else the current region.
Candidates(health, keys, cur, userCountry) ==
    LET healthy == HealthyRegions(health, keys)
        nearby == SelectSeq(GEO_REGIONS(userCountry), LAMBDA r : r \in Range(healthy))
    IN IF healthy = <<>> THEN <<cur>>
       ELSE IF userCountry /= NoCountry /\ nearby /= <<>> THEN nearby
       ELSE healthy

\* C30: the step in which getBestRegion returns changes no health record,
\* latency window or history entry, and its outcome is the one that the
\* health records, the windows and the hint determine: when it returns a
\* region, the one region so determined.
C30_SelectionIsPure ==
    [][(reply = NoReply /\ reply' /= NoReply /\ reply'.op = "getBestRegion")
       => LET cands == Candidates(regionHealth, healthKeys, currentRegion, reply'.hint)
          IN /\ UNCHANGED <<healthKeys, regionHealth, latencyCache, failoverHistory>>
             /\ reply'.value /= TypeError
                => /\ Chosen(latencyCache, cands, reply'.value)
                   /\ Cardinality({r \in Range(cands) :
                                      Chosen(latencyCache, cands, r)}) = 1
             /\ reply'.value =
                    getBestRegion(regionHealth', healthKeys', latencyCache',
                                  currentRegion', reply'.hint)]_vars

\* getBestRegion has returned a region for the hint "US" while two US
\* regions are healthy with different averages and a failure is in the history.
C30_Witness ==
    /\ reply.op = "getBestRegion"
    /\ reply.hint = "US"
    /\ reply.value = "us-west-2"
    /\ IsHealthy(regionHealth, healthKeys, "us-east-1")
    /\ IsHealthy(regionHealth, healthKeys, "us-west-2")
    /\ failoverHistory /= <<>>

\* C31: the value getFailoverStats returns has totalFailovers equal to the
\* length of the history (at most 100, and the number of failures so far
\* until then) and recentFailovers equal to the last 10 entries of the
\* history, or all of them when there are fewer, oldest first.
C31_StatsTotalsAndRecent ==
    [][(reply = NoReply /\ reply' /= NoReply /\ reply'.op = "getFailoverStats")
       => LET stats == reply'.value
              recent == stats.recentFailovers
              n == Len(failoverHistory)
          IN /\ stats.totalFailovers = n
             /\ n <= HistoryCap
             /\ n = (IF clock < HistoryCap THEN clock ELSE HistoryCap)
             /\ Len(recent) = (IF n < RecentCap THEN n ELSE RecentCap)
             /\ \A i \in 1..Len(recent) :
                    recent[i] = failoverHistory[n - Len(recent) + i]
             /\ \A i \in 1..(Len(recent) - 1) :
                    recent[i].timestamp < recent[i + 1].timestamp]_vars

\* getFailoverStats has returned while the history was full and had evicted
\* entries: 100 in total, the ten most recent failures listed.
C31_Witness ==
    /\ reply.op = "getFailoverStats"
    /\ reply.value.totalFailovers = HistoryCap
    /\ clock > HistoryCap
    /\ Len(reply.value.recentFailovers) = RecentCap
    /\ reply.value.recentFailovers[RecentCap].timestamp = clock
    /\ reply.value.recentFailovers[1].timestamp = clock - RecentCap + 1

\* C32: a region whose record says healthy has at least one sample in its
\* latency window, so its average latency is not null.
C32_HealthyHasSample ==
    \A r \in REGIONS :
        IsHealthy(regionHealth, healthKeys, r)
        => /\ Len(latencyCache[r]) >= 1
           /\ getAverageLatency(latencyCache, r) /= <<>>

\* us-west-2 is healthy with its probe's sample, next to us-east-1 whose
\* probe was rejected (a record, no sample) and a region without record.
C32_Witness ==
    /\ IsHealthy(regionHealth, healthKeys, "us-west-2")
    /\ latencyCache["us-west-2"] = <<Ms(450)>>
    /\ Has(healthKeys, "us-east-1")
    /\ regionHealth["us-east-1"].error
    /\ latencyCache["us-east-1"] = <<>>
    /\ ~Has(healthKeys, "eu-west-1")

\* C33 as stated: in every health record, a mark by the executor (lastError
\* set, healthy false) goes with status unhealthy, and healthy = true goes
\* with status healthy.
C33_StatusAgreesWithHealthy ==
    \A r \in REGIONS :
        Has(healthKeys, r)
        => /\ (~regionHealth[r].healthy /\ regionHealth[r].lastError /= <<>>)
              => regionHealth[r].status = "unhealthy"
           /\ regionHealth[r].healthy => regionHealth[r].status = "healthy"

\* The executor has marked region r and a probe of r is in flight.
MarkedInFlight(r) ==
    /\ Has(healthKeys, r)
    /\ regionHealth[r].lastError /= <<>>
    /\ Inflight(probe, r)

\* C34: the step that records a probe replaces the region's whole record:
\* healthy is the probe's own result (resolved 200 below twice the
\* threshold) and the executor's mark is gone, also when the executor marked
\* the region while the probe was in flight.
C34_StaleProbeOverwrites ==
    [][\A r \in REGIONS :
          Settles(r)
          => /\ regionHealth'[r].lastError = <<>>
             /\ regionHealth'[r].healthy
                    = (~regionHealth'[r].error /\ OkAndFast(regionHealth', r))
             /\ (MarkedInFlight(r) /\ ProbeSucceeds(r)) => regionHealth'[r].healthy]_vars

\* us-east-1 answered a request with 503 and is healthy again, by a probe
\* issued before that failure (no tick has started since).
C34_Witness ==
    /\ regionHealth["us-east-1"].healthy
    /\ regionHealth["us-east-1"].lastError = <<>>
    /\ Len(recorded["us-east-1"]) >= 2
    /\ \E i \in 1..Len(failoverHistory) :
           /\ failoverHistory[i].fromRegion = "us-east-1"
           /\ failoverHistory[i].error = Message(HttpError(503))

\* No element occurs twice in the sequence s.
Distinct(s) == \A i, j \in 1..Len(s) : i < j => s[i] /= s[j]

\* C35: the candidate list of a call holds each region at most once, and so
\* do the regions the call has sent requests to (those of its failover
\* events and of its result).
C35_NoRegionTriedTwice ==
    \A c \in Callers :
        /\ Distinct(calls[c].regionOrder)
        /\ Distinct(calls[c].tried)
        /\ calls[c].outcome = "success"
           => calls[c].region \notin Range(SubSeq(calls[c].tried, 1, Len(calls[c].failed)))

\* A call has failed at two regions, neither of them marked, and was served
\* by a third.
C35_Witness ==
    /\ calls["c1"].outcome = "success"
    /\ calls["c1"].failed = <<ConnError, HttpError(404)>>
    /\ Len(calls["c1"].tried) = 3
    /\ IsHealthy(regionHealth, healthKeys, calls["c1"].tried[1])
    /\ IsHealthy(regionHealth, healthKeys, calls["c1"].tried[2])

\* C36: every candidate of a call was healthy when the call computed its
\* list (the list of a call that finds no healthy region holds currentRegion
\* alone and the call throws at once), the list is fixed for the call, and
\* every request goes to a candidate of the list that is healthy at that
\* moment; so a region unhealthy at the start of the call gets no request
\* from it, whatever its health becomes.
C36_OnlyRegionsHealthyAtStart ==
    [][\A c \in Callers :
          /\ (calls[c].pc = "idle" /\ calls'[c].pc /= "idle")
             => LET f == calls'[c]
                IN IF HealthyRegions(regionHealth, healthKeys) = <<>>
                   THEN f.regionOrder = <<currentRegion>> /\ f.tried = <<>>
                        /\ f.outcome = "exhausted"
                   ELSE \A k \in 1..Len(f.regionOrder) :
                            /\ f.regionOrder[k] \in REGIONS
                            /\ IsHealthy(regionHealth, healthKeys, f.regionOrder[k])
          /\ calls[c].pc = "await" => calls'[c].regionOrder = calls[c].regionOrder
          /\ Len(calls'[c].tried) > Len(calls[c].tried)
             => /\ calls'[c].tried = Append(calls[c].tried, Target(calls'[c]))
                /\ regionHealth'[Target(calls'[c])].healthy
                /\ Has(healthKeys', Target(calls'[c]))]_vars

\* A call is at its second request, to the last candidate of its list, while
\* a region that is not on the list has become healthy.
C36_Witness ==
    /\ calls["c1"].pc = "await"
    /\ calls["c1"].attempts = 2
    /\ calls["c1"].idx = Len(calls["c1"].regionOrder)
    /\ \E r \in REGIONS :
           /\ IsHealthy(regionHealth, healthKeys, r)
           /\ r \notin Range(calls["c1"].regionOrder)

\* C37: the attempt counter of a call advances by one with each request it
\* issues and with nothing else, so the k-th request carries k; the event
\* pushed for the k-th request, when it fails, carries k and that request's
\* region; a success result reports the number of failed requests plus one.
C37_AttemptsCountRequests ==
    [][\A c \in Callers :
          /\ calls'[c].pc /= "idle"
             => /\ calls'[c].attempts = Len(calls'[c].tried)
                /\ LET before == IF calls[c].pc = "idle" THEN 0 ELSE calls[c].attempts
                   IN \/ calls'[c].attempts = before
                         /\ Len(calls'[c].tried) = before
                      \/ calls'[c].attempts = before + 1
                         /\ calls'[c].pc = "await"
                         /\ Len(calls'[c].tried) = before + 1
          /\ Len(calls'[c].failed) > Len(calls[c].failed)
             => LET k == Len(calls'[c].failed)
                    event == failoverHistory'[Len(failoverHistory')]
                IN /\ k = calls[c].attempts
                   /\ event.attempt = k
                   /\ event.fromRegion = calls[c].tried[k]
          /\ calls'[c].outcome = "success"
             => calls'[c].attempts = Len(calls'[c].failed) + 1]_vars

\* A call has failed at its first candidate, skipped the second (no longer
\* healthy) and was served by the third, on attempt 2.
C37_Witness ==
    /\ calls["c1"].outcome = "success"
    /\ calls["c1"].attempts = 2
    /\ Len(calls["c1"].regionOrder) >= 3
    /\ calls["c1"].region = calls["c1"].regionOrder[3]
    /\ calls["c1"].tried[1] = calls["c1"].regionOrder[1]
    /\ 2 \in calls["c1"].passed
    /\ Len(calls["c1"].failed) = 1
    /\ \E i \in 1..Len(failoverHistory) :
           /\ failoverHistory[i].fromRegion = calls["c1"].tried[1]
           /\ failoverHistory[i].attempt = 1

\* C38: when a request of a call fails, the records of all regions other
\* than the failed one, the set of regions with a record and every region's
\* latency window (the failed region's too) are as before; the failed
\* region's record differs at most in healthy and lastError, and not at all
\* when the failure is not a server error.
C38_FailureTouchesOneRecord ==
    [][\A c \in Callers :
          Failing(c, AnyFailure)
          => LET regionId == Target(calls[c])
                 error == calls'[c].failed[Len(calls'[c].failed)]
             IN /\ \A r \in REGIONS \ {regionId} : regionHealth'[r] = regionHealth[r]
                /\ healthKeys' = healthKeys
                /\ \A r \in REGIONS : latencyCache'[r] = latencyCache[r]
                /\ recorded' = recorded
                /\ [regionHealth'[regionId] EXCEPT !.healthy = TRUE, !.lastError = <<>>]
                       = [regionHealth[regionId] EXCEPT !.healthy = TRUE, !.lastError = <<>>]
                /\ ~ServerClass(error) => regionHealth'[regionId] = regionHealth[regionId]]_vars

\* A request to a region was answered 503: the region is marked, its window
\* still holds its samples, and every other region is healthy with its
\* window.
C38_Witness ==
    /\ calls["c1"].failed = <<HttpError(503)>>
    /\ LET regionId == calls["c1"].tried[1]
       IN /\ ~regionHealth[regionId].healthy
          /\ regionHealth[regionId].lastError /= <<>>
          /\ latencyCache[regionId] /= <<>>
          /\ latencyCache[regionId] = recorded[regionId]
          /\ \A r \in REGIONS \ {regionId} :
                 IsHealthy(regionHealth, healthKeys, r) /\ latencyCache[r] /= <<>>

\* C39: in every state the counts of getRegionStatus add up to the number of
\* regions with a health record, which is the number of entries of its
\* regions object and at most totalRegions; both counts are 0 while no
\* probe has completed; a status handed to a caller is consistent likewise.
C39_StatusCountsConsistent ==
    LET status == getRegionStatus(regionHealth, healthKeys, latencyCache, currentRegion)
    IN /\ status.healthyRegions + status.unhealthyRegions = Len(healthKeys)
       /\ Len(healthKeys) = Cardinality(DOMAIN status.regions)
       /\ Len(healthKeys) <= status.totalRegions
       /\ status.totalRegions = Cardinality(REGIONS)
       /\ (probe[1] = Started /\ \A r \in REGIONS : recorded[r] = <<>>)
          => status.healthyRegions = 0 /\ status.unhealthyRegions = 0
       /\ reply.op = "getRegionStatus"
          => /\ reply.value.healthyRegions + reply.value.unhealthyRegions
                    = Cardinality(DOMAIN reply.value.regions)
             /\ Cardinality(DOMAIN reply.value.regions) <= reply.value.totalRegions

\* getRegionStatus has returned two healthy regions and one unhealthy one
\* while the fourth region has no record yet.
C39_Witness ==
    /\ reply.op = "getRegionStatus"
    /\ reply.value.healthyRegions = 2
    /\ reply.value.unhealthyRegions = 1
    /\ Len(healthKeys) = 3
    /\ \E r \in REGIONS : Inflight(probe, r)

====
